---- MODULE Spec2Model ----
(***************************************************************************)
(* Layout model of the Dragon Quest III save-state structure headers       *)
(* (documentation/dq3_structures/headers/*.h).                             *)
(*                                                                         *)
(* The headers hold no executable code: each one declares a memory region  *)
(* (BASE_ADDR, SIZE) and a struct whose members document the bytes of the  *)
(* region.  Two state machines are built from them:                        *)
(*                                                                         *)
(*   Spec        lays the members of one struct out, one declaration per   *)
(*               step, in declaration order, each member directly after    *)
(*               the previous one (packed);                                *)
(*   RegionSpec  enters the regions of the thirteen headers into one       *)
(*               memory map, one header per step, in any order.            *)
(***************************************************************************)
EXTENDS Integers, Sequences, FiniteSets, TLC

VARIABLES rec, placed, offset, mapped, mem

vars == <<rec, placed, offset, mapped, mem>>

----------------------------------------------------------------------------
(* The #define lines of the headers (hexadecimal in the source).           *)

INVENTORY_BASE_ADDR == 14117        \* 0x3725
INVENTORY_SIZE == 512
HERO_BASE_ADDR == 14629             \* 0x3925
HERO_SIZE == 60
PARTYMEMBER_2_BASE_ADDR == 14689    \* 0x3961
PARTYMEMBER_2_SIZE == 60
PARTYMEMBER_3_BASE_ADDR == 14749    \* 0x399d
PARTYMEMBER_3_SIZE == 60
PARTYMEMBER_4_BASE_ADDR == 14809    \* 0x39d9
PARTYMEMBER_4_SIZE == 60
PARTYMEMBER_5_BASE_ADDR == 14869    \* 0x3A15
PARTYMEMBER_5_SIZE == 60
PARTYMEMBER_6_BASE_ADDR == 14929    \* 0x3A51
PARTYMEMBER_6_SIZE == 60
PARTYMEMBER_7_BASE_ADDR == 14989    \* 0x3a8d
PARTYMEMBER_7_SIZE == 60
PARTYMEMBER_8_BASE_ADDR == 15049    \* 0x3AC9
PARTYMEMBER_8_SIZE == 60
PARTYMEMBER_9_BASE_ADDR == 15109    \* 0x3B05
PARTYMEMBER_9_SIZE == 60
PARTYMEMBER_10_BASE_ADDR == 15169   \* 0x3b41
PARTYMEMBER_10_SIZE == 60
PARTYMEMBER_11_BASE_ADDR == 15229   \* 0x3B7D
PARTYMEMBER_11_SIZE == 60
PARTYMEMBER_12_BASE_ADDR == 15289   \* 0x3bb9
PARTYMEMBER_12_SIZE == 60

(* The thirteen headers, in address order.  RecordNames[1] is the          *)
(* inventory, RecordNames[2] the hero (party member #1) and                *)
(* RecordNames[n + 1] party member #n.                                     *)
RecordNames ==
    <<"Inventory", "Hero", "PartyMember_2", "PartyMember_3", "PartyMember_4",
      "PartyMember_5", "PartyMember_6", "PartyMember_7", "PartyMember_8",
      "PartyMember_9", "PartyMember_10", "PartyMember_11", "PartyMember_12">>

Records == {RecordNames[i] : i \in 1..Len(RecordNames)}

PartyMember(n) == RecordNames[n + 1]

BaseAddr(r) ==
    CASE r = "Inventory"      -> INVENTORY_BASE_ADDR
      [] r = "Hero"           -> HERO_BASE_ADDR
      [] r = "PartyMember_2"  -> PARTYMEMBER_2_BASE_ADDR
      [] r = "PartyMember_3"  -> PARTYMEMBER_3_BASE_ADDR
      [] r = "PartyMember_4"  -> PARTYMEMBER_4_BASE_ADDR
      [] r = "PartyMember_5"  -> PARTYMEMBER_5_BASE_ADDR
      [] r = "PartyMember_6"  -> PARTYMEMBER_6_BASE_ADDR
      [] r = "PartyMember_7"  -> PARTYMEMBER_7_BASE_ADDR
      [] r = "PartyMember_8"  -> PARTYMEMBER_8_BASE_ADDR
      [] r = "PartyMember_9"  -> PARTYMEMBER_9_BASE_ADDR
      [] r = "PartyMember_10" -> PARTYMEMBER_10_BASE_ADDR
      [] r = "PartyMember_11" -> PARTYMEMBER_11_BASE_ADDR
      [] r = "PartyMember_12" -> PARTYMEMBER_12_BASE_ADDR

Size(r) ==
    CASE r = "Inventory"      -> INVENTORY_SIZE
      [] r = "Hero"           -> HERO_SIZE
      [] r = "PartyMember_2"  -> PARTYMEMBER_2_SIZE
      [] r = "PartyMember_3"  -> PARTYMEMBER_3_SIZE
      [] r = "PartyMember_4"  -> PARTYMEMBER_4_SIZE
      [] r = "PartyMember_5"  -> PARTYMEMBER_5_SIZE
      [] r = "PartyMember_6"  -> PARTYMEMBER_6_SIZE
      [] r = "PartyMember_7"  -> PARTYMEMBER_7_SIZE
      [] r = "PartyMember_8"  -> PARTYMEMBER_8_SIZE
      [] r = "PartyMember_9"  -> PARTYMEMBER_9_SIZE
      [] r = "PartyMember_10" -> PARTYMEMBER_10_SIZE
      [] r = "PartyMember_11" -> PARTYMEMBER_11_SIZE
      [] r = "PartyMember_12" -> PARTYMEMBER_12_SIZE

----------------------------------------------------------------------------
(* The struct members.                                                     *)

(* sizeof of the member types the headers use.                             *)
TypeWidth(t) ==
    CASE t = "uint8_t"  -> 1
      [] t = "uint16_t" -> 2
      [] t = "uint32_t" -> 4
      [] t = "char[5]"  -> 5

(* A member declaration `type name;'.                                      *)
Member(name, type) ==
    [name |-> name, type |-> type, sub |-> FALSE, of |-> "", hi |-> 0, lo |-> 0]

(* A documented bit range hi..lo of the one-byte member `of'               *)
(* ("Top 7 bits are level, bottom bit unknown").                           *)
Bits(name, of, hi, lo) ==
    [name |-> name, type |-> "uint8_t", sub |-> TRUE, of |-> of,
     hi |-> hi, lo |-> lo]

Hero_t ==
    << Member("Hero_Level", "uint8_t"),
       Bits("Hero_Level[7:1]", "Hero_Level", 7, 1),
       Member("Hero_XP", "uint32_t"),
       Member("HP_Max", "uint16_t"),
       Member("Hero_HP", "uint16_t"),
       Member("MP_Max", "uint16_t"),
       Member("Hero_MP", "uint16_t"),
       Member("Hero_Strength", "uint8_t"),
       Member("Hero_Agility", "uint8_t"),
       Member("Hero_Stamina", "uint8_t"),
       Member("Hero_Wisdom", "uint8_t"),
       Member("Hero_Luck", "uint8_t"),
       Member("Hero_Name", "char[5]"),
       Member("Hero_Spells", "uint8_t"),
       Member("Bag_Number_Equiped", "uint8_t"),
       Member("Bag_Number_Carried", "uint8_t"),
       Member("Bag_Items", "uint8_t") >>

Inventory_t ==
    << Member("Bag_Items", "uint8_t"),
       Member("Items_Amounts", "uint16_t") >>

(* The members every PartyMember_<n>_t starts with, and those it ends      *)
(* with; n is the member number as the headers spell it.                   *)
PartyMemberStats(n) ==
    << Member(n \o "_Level", "uint8_t"),
       Bits(n \o "_Level[7:1]", n \o "_Level", 7, 1),
       Member(n \o "_XP", "uint32_t"),
       Member(n \o "_HP_Max", "uint16_t"),
       Member(n \o "_HP", "uint16_t"),
       Member(n \o "_MP_Max", "uint16_t"),
       Member(n \o "_MP", "uint16_t"),
       Member(n \o "_Strength", "uint8_t"),
       Member(n \o "_Agility", "uint8_t"),
       Member(n \o "_Stamina", "uint8_t"),
       Member(n \o "_Wisdom", "uint8_t"),
       Member(n \o "_Luck", "uint8_t"),
       Member(n \o "_Name", "char[5]") >>

PartyMemberBag(n) ==
    << Member(n \o "_Bag_Number_Equiped", "uint8_t"),
       Member(n \o "_Bag_Number_Carried", "uint8_t"),
       Member(n \o "_Bag_Items", "uint8_t") >>

PartyMember_2_t == PartyMemberStats("2") \o PartyMemberBag("2")
PartyMember_3_t == PartyMemberStats("3") \o PartyMemberBag("3")
PartyMember_4_t == PartyMemberStats("4") \o PartyMemberBag("4")
PartyMember_5_t ==
    PartyMemberStats("5") \o << Member("5_Spells", "uint8_t") >>
                          \o PartyMemberBag("5")
PartyMember_6_t == PartyMemberStats("6") \o PartyMemberBag("6")
PartyMember_7_t == PartyMemberStats("7") \o PartyMemberBag("7")
PartyMember_8_t == PartyMemberStats("8") \o PartyMemberBag("8")
PartyMember_9_t == PartyMemberStats("9") \o PartyMemberBag("9")
PartyMember_10_t == PartyMemberStats("10") \o PartyMemberBag("10")
PartyMember_11_t == PartyMemberStats("11") \o PartyMemberBag("11")
PartyMember_12_t == PartyMemberStats("12") \o PartyMemberBag("12")

Struct(r) ==
    CASE r = "Inventory"      -> Inventory_t
      [] r = "Hero"           -> Hero_t
      [] r = "PartyMember_2"  -> PartyMember_2_t
      [] r = "PartyMember_3"  -> PartyMember_3_t
      [] r = "PartyMember_4"  -> PartyMember_4_t
      [] r = "PartyMember_5"  -> PartyMember_5_t
      [] r = "PartyMember_6"  -> PartyMember_6_t
      [] r = "PartyMember_7"  -> PartyMember_7_t
      [] r = "PartyMember_8"  -> PartyMember_8_t
      [] r = "PartyMember_9"  -> PartyMember_9_t
      [] r = "PartyMember_10" -> PartyMember_10_t
      [] r = "PartyMember_11" -> PartyMember_11_t
      [] r = "PartyMember_12" -> PartyMember_12_t

----------------------------------------------------------------------------
(* Spec: packed layout of one struct.                                      *)

(* A layout that treats every member as one byte wide.                     *)
NextOffsetByteStep(off, m) == off + 1

(* Offset of the member declared after m, when m sits at off.              *)
NextOffset(off, m) == off + TypeWidth(m.type)

(* Offset of the already placed member called name.                        *)
OffsetOf(name) ==
    LET i == CHOOSE k \in 1..Len(placed) : placed[k].name = name
    IN  placed[i].offset

(* The next declaration of the struct is read: a member takes the bytes    *)
(* from the current offset on, a bit range takes the byte of its member.   *)
DeclareField ==
    /\ Len(placed) < Len(Struct(rec))
    /\ LET m == Struct(rec)[Len(placed) + 1]
           at == IF m.sub THEN OffsetOf(m.of) ELSE offset
       IN  /\ placed' = Append(placed,
                   [name |-> m.name, offset |-> at,
                    width |-> TypeWidth(m.type), sub |-> m.sub, of |-> m.of,
                    hi |-> m.hi, lo |-> m.lo])
           /\ offset' = IF m.sub THEN offset ELSE NextOffset(offset, m)
    /\ UNCHANGED <<rec, mapped, mem>>

----------------------------------------------------------------------------
(* RegionSpec: the memory map of the thirteen headers.                     *)

(* A region that counts its end address in.                                *)
RegionInclusiveEnd(r) == BaseAddr(r) .. (BaseAddr(r) + Size(r))

(* The addresses a header documents: Size bytes from the base address.     *)
Region(r) == BaseAddr(r) .. (BaseAddr(r) + Size(r) - 1)

(* The region of header r is entered into the map; mem[a] is the set of    *)
(* headers that document address a.                                        *)
DeclareRegion(r) ==
    /\ r \notin mapped
    /\ mapped' = mapped \cup {r}
    /\ mem' = [a \in DOMAIN mem \cup Region(r) |->
                  (IF a \in DOMAIN mem THEN mem[a] ELSE {})
                     \cup (IF a \in Region(r) THEN {r} ELSE {})]
    /\ UNCHANGED <<rec, placed, offset>>

----------------------------------------------------------------------------

Init ==
    /\ rec \in Records
    /\ placed = << >>
    /\ offset = 0
    /\ mapped = {}
    /\ mem = << >>

Next == DeclareField

Spec == Init /\ [][Next]_vars

RegionInit ==
    /\ rec = "Inventory"
    /\ placed = << >>
    /\ offset = 0
    /\ mapped = {}
    /\ mem = << >>

RegionNext == \E r \in Records : DeclareRegion(r)

RegionSpec == RegionInit /\ [][RegionNext]_vars

----------------------------------------------------------------------------
(* Properties.                                                             *)

RECURSIVE SumExtents(_)
(* Bytes taken by the members of a layout; a bit range takes none of its   *)
(* own.                                                                    *)
SumExtents(s) ==
    IF s = << >> THEN 0
    ELSE (IF Head(s).sub THEN 0 ELSE Head(s).width) + SumExtents(Tail(s))

Extent(f) == f.offset .. (f.offset + f.width - 1)

(* g is a declared bit range of the one-byte member f.                     *)
SubFieldOf(g, f) ==
    /\ g.sub
    /\ ~f.sub
    /\ g.of = f.name
    /\ f.width = 1
    /\ g.offset = f.offset
    /\ 0 <= g.lo /\ g.lo <= g.hi /\ g.hi <= 7

NoOverlap ==
    \A i, j \in 1..Len(placed) :
        i < j /\ Extent(placed[i]) \cap Extent(placed[j]) # {}
            => SubFieldOf(placed[j], placed[i])

(* C8: in the packed layout, in declaration order, of each of the 13       *)
(* structs (Hero, Inventory, PartyMember 2..12) no two members overlap,    *)
(* except a declared bit range and the byte that contains it, and the      *)
(* members together take no more bytes than the SIZE the header declares   *)
(* (60 for Hero and each PartyMember, 512 for Inventory).                  *)
C8_RecordSchemaInvariant ==
    /\ NoOverlap
    /\ SumExtents(placed) <= Size(rec)
    /\ \A i \in 1..Len(placed) :
           Extent(placed[i]) \subseteq 0 .. (Size(rec) - 1)

(* The whole of PartyMember_5_t (the one party member with a Spells        *)
(* member) is laid out: 27 bytes, the level bits inside byte 0.            *)
C8_Witness ==
    /\ rec = "PartyMember_5"
    /\ Len(placed) = Len(PartyMember_5_t)
    /\ SumExtents(placed) = 27
    /\ \E i \in 1..Len(placed) : placed[i].sub /\ placed[i].offset = 0
    /\ placed[Len(placed)].offset = 26

(* C10: the documented regions [BASE_ADDR, BASE_ADDR + SIZE) are pairwise  *)
(* disjoint (no address is documented by two headers), the inventory ends  *)
(* where the hero begins, party member #n begins 60 * (n - 1) bytes after  *)
(* the hero, and the thirteen regions together cover one range without a   *)
(* gap.                                                                    *)
C10_RegionsTile ==
    /\ \A a \in DOMAIN mem : Cardinality(mem[a]) = 1
    /\ \A r \in mapped : Region(r) \subseteq DOMAIN mem
    /\ {"Inventory", "Hero"} \subseteq mapped
           => /\ INVENTORY_BASE_ADDR + INVENTORY_SIZE = HERO_BASE_ADDR
              /\ (HERO_BASE_ADDR - 1) \in DOMAIN mem
              /\ mem[HERO_BASE_ADDR - 1] = {"Inventory"}
              /\ mem[HERO_BASE_ADDR] = {"Hero"}
    /\ \A n \in 2..12 :
           {"Hero", PartyMember(n)} \subseteq mapped
               => /\ BaseAddr(PartyMember(n)) = HERO_BASE_ADDR + 60 * (n - 1)
                  /\ mem[HERO_BASE_ADDR + 60 * (n - 1)] = {PartyMember(n)}
    /\ mapped = Records
           => DOMAIN mem = INVENTORY_BASE_ADDR ..
                               (PARTYMEMBER_12_BASE_ADDR + PARTYMEMBER_12_SIZE - 1)

(* All thirteen regions are in the map: 512 + 12 * 60 addresses.           *)
C10_Witness ==
    /\ mapped = Records
    /\ Cardinality(DOMAIN mem) = 1232
    /\ mem[INVENTORY_BASE_ADDR] = {"Inventory"}
    /\ mem[PARTYMEMBER_12_BASE_ADDR + PARTYMEMBER_12_SIZE - 1] = {"PartyMember_12"}

====
